---- MODULE Spec2Model ----
(***************************************************************************)
(* Incremental sales pipeline: raw ingest (ingest_all_months.py) chained   *)
(* with the curated build (build_curated_sales_monthly.py).                *)
(*                                                                         *)
(* A file name is a sequence of characters (the ".xlsx" suffix that the    *)
(* glob requires is left out); a report month is the 7-character           *)
(* sub-sequence that parse_report_month finds in it.  File content is an   *)
(* opaque byte-string identifier, and sha256 is injective on it.           *)
(***************************************************************************)
EXTENDS Integers, Sequences, FiniteSets, TLC

VARIABLES
    inputs,       \* input directory: file name -> [mtime, content]
    rawOut,       \* raw parquet per month: month -> [src, content, mtime]
    curOut,       \* curated parquet per month: month -> [raw]
    ingestFile,   \* processed_files.json as it is on disk
    curatedFile,  \* curated_processed_months.json as it is on disk
    pc,           \* position of the running invocation ("idle": none)
    args,         \* command line of the running invocation
    ing,          \* locals of ingest_all_months.main
    cur,          \* locals of run_curated_build
    post,         \* post_steps["build_curated"] of ingest_all_months.main
    last,         \* how the latest invocation ended
    prev,         \* history: the invocation before the current one
    runs,         \* invocations started so far
    envSteps,     \* operator actions on the file system so far
    dirty,        \* history: files were changed since the latest invocation
    faults,       \* kills, read errors and transform errors so far
    clock,        \* the wall clock, in seconds
    reports,      \* run summaries on disk: per stage, runs (run_id -> summary) and latest
    schema        \* schemas/sales_monthly_v1.json: "ok" or "invalid"

vars == <<inputs, rawOut, curOut, ingestFile, curatedFile, pc, args, ing, cur,
          post, last, prev, runs, envSteps, dirty, faults, clock, reports, schema>>

---------------------------------------------------------------------------
(* Bounds of the model. *)

MaxFiles == 2       \* file names the pipeline runs may find in the input directory
MaxDiscFiles == 5   \* file names the discovery-only specification draws from
MaxMtime == 2       \* modification times 1..MaxMtime
MaxContent == 2     \* distinct byte contents 1..MaxContent
MaxRuns == 3        \* invocations per behaviour
MaxEnvSteps == 1    \* operator actions per behaviour
MaxFaults == 1      \* kills, read errors and transform errors per behaviour
MaxClock == 2       \* clock ticks per behaviour
MaxDeliveries == 2  \* workbook deliveries per behaviour of the delivery specification
MaxProcs == 2       \* concurrent invocations of the concurrency specification

---------------------------------------------------------------------------
(* File names, character order, sorting. *)

NameUniverse ==
    << <<"2","0","2","4","-","0","1","a">>,
       <<"2","0","2","4","-","0","2","a">>,
       <<"2","0","2","4","-","0","1","b">>,
       <<"2","0","2","4","-","0","1","c">>,
       <<"s","2","0","2","4","-","0","2">>,
       <<"2","0","2","4","-","0","3","a">>,
       <<"2","0","2","4","-","0","1","d">> >>

NamesUpTo(n) ==
    { NameUniverse[i] : i \in 1..(IF n < Len(NameUniverse) THEN n ELSE Len(NameUniverse)) }

Names == NamesUpTo(MaxFiles)

\* The names under which workbooks are delivered later on: those of the first
\* delivery, and one more for a month that has a file already.
DeliveryNames == NamesUpTo(MaxFiles + 1)

\* A file name in which parse_report_month finds no month.
NoMonthName == <<"2","0","2","4","_","0","1">>

\* A file name that carries the thirteenth month of a year.
NoCalendarMonthName == <<"2","0","2","4","-","1","3","a">>

DiscNames == NamesUpTo(MaxDiscFiles) \cup {NoMonthName, NoCalendarMonthName}

Digits == {"0","1","2","3","4","5","6","7","8","9"}

\* Characters in code-point order, as str and Path comparison use it.
CharOrder ==
    <<"-","0","1","2","3","4","5","6","7","8","9","A","B","C","D","S","_","a","b","c","d","s">>

CharCode(c) == CHOOSE i \in 1..Len(CharOrder) : CharOrder[i] = c

RECURSIVE StrLess(_, _)
StrLess(a, b) ==
    IF a = <<>> THEN b # <<>>
    ELSE IF b = <<>> THEN FALSE
    ELSE IF Head(a) = Head(b) THEN StrLess(Tail(a), Tail(b))
    ELSE CharCode(Head(a)) < CharCode(Head(b))

\* sorted(...): the elements of S in ascending order.
RECURSIVE Sorted(_)
Sorted(S) ==
    IF S = {} THEN <<>>
    ELSE LET m == CHOOSE x \in S : \A y \in S \ {x} : StrLess(x, y)
         IN  <<m>> \o Sorted(S \ {m})

LowerChar(c) ==
    CASE c = "A" -> "a" [] c = "B" -> "b" [] c = "C" -> "c" [] c = "D" -> "d"
      [] c = "S" -> "s" [] OTHER -> c

\* normalize_state_path_key: the resolved path, lower-cased.
normalize_state_path_key(path) == [i \in 1..Len(path) |-> LowerChar(path[i])]

\* file_sha256: a digest of the bytes alone, never of the path.
file_sha256(content) == <<"sha256", content>>

---------------------------------------------------------------------------
(* common.parse_report_month: re.search(r"(20\d{2}-\d{2})", name). *)

MonthAt(name, i) ==
    /\ i + 6 <= Len(name)
    /\ name[i] = "2"
    /\ name[i + 1] = "0"
    /\ name[i + 2] \in Digits
    /\ name[i + 3] \in Digits
    /\ name[i + 4] = "-"
    /\ name[i + 5] \in Digits
    /\ name[i + 6] \in Digits

MatchPositions(name) == { i \in 1..Len(name) : MonthAt(name, i) }

\* <<>> stands for the ValueError raised when nothing matches.
parse_report_month(name) ==
    IF MatchPositions(name) = {} THEN <<>>
    ELSE LET i == CHOOSE p \in MatchPositions(name) : \A q \in MatchPositions(name) : p <= q
         IN  SubSeq(name, i, i + 6)

Months == { parse_report_month(n) : n \in Names } \ {<<>>}

---------------------------------------------------------------------------
(* ingest_all_months.discover_input_files *)

\* One pass of "for path in sorted(input_dir.glob('*.xlsx'))".
RECURSIVE ScanInputs(_, _, _)
ScanInputs(dir, paths, acc) ==
    IF paths = <<>> THEN acc
    ELSE LET path == Head(paths)
             report_month == parse_report_month(path)
         IN  IF report_month = <<>>
             THEN ScanInputs(dir, Tail(paths),
                      [acc EXCEPT !.skipped = Append(@,
                          [file |-> path, reason |-> <<"invalid_report_month", path>>])])
             ELSE ScanInputs(dir, Tail(paths),
                      [acc EXCEPT !.candidates = Append(@,
                          [path |-> path, file_name |-> path,
                           report_month |-> report_month,
                           modified_at_epoch |-> dir[path].mtime])])

\* A variant of IsNewer: a candidate of equal age replaces the winner too.
IsNewerOrSame(item_mtime, existing_mtime) == item_mtime >= existing_mtime

\* A variant of IsNewer: the older candidate replaces the winner.
IsOlder(item_mtime, existing_mtime) == item_mtime < existing_mtime

\* "if item > existing": the comparison that lets a later candidate replace the winner.
IsNewer(item_mtime, existing_mtime) == item_mtime > existing_mtime

\* One pass of "for item in candidates": latest modified wins.
RECURSIVE ResolveByMonth(_, _, _)
ResolveByMonth(candidates, by_month, skipped) ==
    IF candidates = <<>> THEN [by_month |-> by_month, skipped |-> skipped]
    ELSE LET item == Head(candidates)
             month == item.report_month
         IN  IF month \notin DOMAIN by_month
             THEN ResolveByMonth(Tail(candidates),
                      [m \in DOMAIN by_month \cup {month} |->
                          IF m = month THEN item ELSE by_month[m]],
                      skipped)
             ELSE LET existing == by_month[month]
                  IN  IF IsNewer(item.modified_at_epoch, existing.modified_at_epoch)
                      THEN ResolveByMonth(Tail(candidates),
                               [by_month EXCEPT ![month] = item],
                               Append(skipped,
                                   [file |-> existing.path,
                                    reason |-> <<"duplicate_month_replaced_by_newer_file",
                                                 item.file_name>>]))
                      ELSE ResolveByMonth(Tail(candidates), by_month,
                               Append(skipped,
                                   [file |-> item.path,
                                    reason |-> <<"duplicate_month_older_than",
                                                 existing.file_name>>]))

\* A variant of discover_input_files that returns every candidate as selected.
discover_input_files_keeps_all(dir) ==
    LET scan == ScanInputs(dir, Sorted(DOMAIN dir), [candidates |-> <<>>, skipped |-> <<>>])
        res  == ResolveByMonth(scan.candidates, <<>>, scan.skipped)
    IN  [selected |-> scan.candidates,
         skipped  |-> res.skipped]

\* A variant of discover_input_files whose second loop starts a new skipped list.
discover_input_files_new_skipped(dir) ==
    LET scan == ScanInputs(dir, Sorted(DOMAIN dir), [candidates |-> <<>>, skipped |-> <<>>])
        res  == ResolveByMonth(scan.candidates, <<>>, <<>>)
        keys == Sorted(DOMAIN res.by_month)
    IN  [selected |-> [i \in 1..Len(keys) |-> res.by_month[keys[i]]],
         skipped  |-> res.skipped]

\* Lines 64-116.
discover_input_files(dir) ==
    LET scan == ScanInputs(dir, Sorted(DOMAIN dir), [candidates |-> <<>>, skipped |-> <<>>])
        res  == ResolveByMonth(scan.candidates, <<>>, scan.skipped)
        keys == Sorted(DOMAIN res.by_month)
    IN  [selected |-> [i \in 1..Len(keys) |-> res.by_month[keys[i]]],
         skipped  |-> res.skipped]

---------------------------------------------------------------------------
(* build_curated_sales_monthly.discover_raw_partitions *)

\* The directory of a raw or curated partition: report_month_<month>.
PartitionDir(month) == <<"report_month_">> \o month

\* <<>> stands for the ValueError raised for a directory without the prefix.
parse_month_from_partition_dir(name) ==
    IF name # <<>> /\ Head(name) = "report_month_" THEN Tail(name) ELSE <<>>

\* Partition directories compare by what follows their common prefix.
StrLessFrom(a, b) == StrLess(Tail(a), Tail(b))

RECURSIVE SortedDirs(_)
SortedDirs(S) ==
    IF S = {} THEN <<>>
    ELSE LET m == CHOOSE x \in S : \A y \in S \ {x} : StrLessFrom(x, y)
         IN  <<m>> \o SortedDirs(S \ {m})

\* "if candidate > current" of the raw scan.
RawIsNewer(candidate_mtime, current_mtime) == candidate_mtime > current_mtime

\* One pass of "for raw_path in sorted(raw_base.glob(...))".
RECURSIVE ScanRaw(_, _, _, _)
ScanRaw(raw, dirs, selected, skipped) ==
    IF dirs = <<>> THEN [selected |-> selected, skipped |-> skipped]
    ELSE LET raw_path == Head(dirs)
             month == parse_month_from_partition_dir(raw_path)
             candidate == [path |-> raw_path, mtime |-> raw[month].mtime]
         IN  IF month \notin DOMAIN selected
             THEN ScanRaw(raw, Tail(dirs),
                      [m \in DOMAIN selected \cup {month} |->
                          IF m = month THEN candidate ELSE selected[m]],
                      skipped)
             ELSE IF RawIsNewer(candidate.mtime, selected[month].mtime)
             THEN ScanRaw(raw, Tail(dirs), [selected EXCEPT ![month] = candidate],
                      Append(skipped,
                          [file |-> selected[month].path,
                           reason |-> <<"duplicate_month_replaced_by_newer_file", raw_path>>]))
             ELSE ScanRaw(raw, Tail(dirs), selected,
                      Append(skipped,
                          [file |-> raw_path,
                           reason |-> <<"duplicate_month_older_than", selected[month].path>>]))

discover_raw_partitions(raw) ==
    LET res == ScanRaw(raw, SortedDirs({ PartitionDir(m) : m \in DOMAIN raw }), <<>>, <<>>)
    IN  [mapping |-> [m \in DOMAIN res.selected |-> res.selected[m].path],
         skipped |-> res.skipped]

---------------------------------------------------------------------------
(* The state files: load_state and save_state of both stages. *)

\* The clock ticks twice in a second.
TicksPerSecond == 2

\* datetime.now(...) cut to the second: replace(microsecond=0), strftime("...%SZ").
Seconds(now) == now \div TicksPerSecond

SCHEMA_ID == "sales_monthly_v1"

CURATED_SCHEMA_ID == "sales_monthly_curated_v1"

\* A schema_id that neither stage writes (a state file of another version).
ForeignSchemaId == "sales_monthly_v0"

\* utc_now_iso(): the time cut to the second.
utc_now_iso(now) == Seconds(now)

AbsentFile == [kind |-> "absent", schema_id |-> "none", updated_at |-> 0, records |-> <<>>]

\* What write_text leaves on disk between opening the file (which truncates
\* it) and the end of the write.
PartialFile == [kind |-> "partial", schema_id |-> "none", updated_at |-> 0, records |-> <<>>]

\* A JSON state file whose "files" (or "months") field is a list, not an object.
NotMappingFile(schema_id) ==
    [kind |-> "not_mapping", schema_id |-> schema_id, updated_at |-> 0, records |-> <<>>]

CompleteFile(schema_id, updated_at, records) ==
    [kind |-> "ok", schema_id |-> schema_id, updated_at |-> updated_at, records |-> records]

\* A variant of load_state that takes a "files" field of the wrong type for an
\* empty mapping.
load_state_lenient(file) ==
    IF file.kind = "absent" THEN [raised |-> FALSE, schema_id |-> SCHEMA_ID, files |-> <<>>]
    ELSE IF file.kind = "partial" THEN [raised |-> TRUE, schema_id |-> SCHEMA_ID, files |-> <<>>]
    ELSE [raised |-> FALSE, schema_id |-> file.schema_id, files |-> file.records]

\* ingest_all_months.load_state: raised stands for json.loads failing on a
\* truncated file and for the ValueError of line 50.
load_state(file) ==
    IF file.kind = "absent" THEN [raised |-> FALSE, schema_id |-> SCHEMA_ID, files |-> <<>>]
    ELSE IF file.kind \in {"partial", "not_mapping"}
         THEN [raised |-> TRUE, schema_id |-> SCHEMA_ID, files |-> <<>>]
    ELSE [raised |-> FALSE, schema_id |-> file.schema_id, files |-> file.records]

\* build_curated_sales_monthly.load_state
load_state_curated(file) ==
    IF file.kind = "absent"
    THEN [raised |-> FALSE, schema_id |-> CURATED_SCHEMA_ID, months |-> <<>>]
    ELSE IF file.kind \in {"partial", "not_mapping"}
         THEN [raised |-> TRUE, schema_id |-> CURATED_SCHEMA_ID, months |-> <<>>]
    ELSE [raised |-> FALSE, schema_id |-> file.schema_id, months |-> file.records]

\* ingest_all_months.save_state, first half: state_path.write_text opens the file for writing.
save_state_open(file) == PartialFile

\* ingest_all_months.save_state, second half: the JSON text, with updated_at
\* set to the time of the save, is written out.
save_state_write(schema_id, files, now) == CompleteFile(schema_id, utc_now_iso(now), files)

\* build_curated_sales_monthly.save_state, in the same two halves.
save_state_curated_open(file) == PartialFile

save_state_curated_write(schema_id, months, now) ==
    CompleteFile(schema_id, utc_now_iso(now), months)

\* state[key] = value for a mapping that may not hold key yet.
Upsert(state, key, value) ==
    [k \in DOMAIN state \cup {key} |-> IF k = key THEN value ELSE state[k]]

\* The mapping without key (a file or directory removed from disk).
Without(f, key) == [k \in DOMAIN f \ {key} |-> f[k]]

\* The bytes of a raw parquet: the rows of the workbook and its source_file column.
RawBytes(r) == <<r.src, r.content>>

---------------------------------------------------------------------------
(* Locals of an invocation. *)

IngBlank ==
    [selected |-> <<>>, skips |-> <<>>, idx |-> 1, state |-> <<>>, loaded |-> <<>>,
     schema_id |-> SCHEMA_ID, fileAtStart |-> AbsentFile, processed |-> <<>>, unchanged |-> <<>>, failed |-> <<>>]

\* selected_months is <<>> for None and <<S>> for the list of the months S.
CurBlank ==
    [selected_months |-> <<>>, months |-> <<>>, mapping |-> <<>>, skips |-> <<>>, idx |-> 1,
     state |-> <<>>, loaded |-> <<>>, schema_id |-> CURATED_SCHEMA_ID,
     fileAtStart |-> AbsentFile,
     processed |-> <<>>, unchanged |-> <<>>, failed |-> <<>>]

PostBlank == [enabled |-> FALSE, executed |-> FALSE, error |-> "none", failed_count |-> 0]

ArgsNone == [cli |-> "none", build_curated |-> FALSE]

LastNone == [outcome |-> "none", exit |-> -1, at |-> "none"]

Running == [outcome |-> "running", exit |-> -1, at |-> "none"]

\* An exception that nothing catches: the traceback, and exit code 1.
Raised(site) == [outcome |-> "raised", exit |-> 1, at |-> site]

Completed(code) == [outcome |-> "complete", exit |-> code, at |-> "none"]

\* History: what the next invocation is compared with.  fullOk: a chained run
\* that completed both stages with nothing failed.  killed: the stage that was
\* killed before its save_state began, with the months it had selected, those it
\* had processed, and those of them whose state record already held the
\* fingerprint (processed only because their output was missing).
KilledStage ==
    IF last.outcome = "killed" /\ last.at = "ingest_loop" THEN "ingest"
    ELSE IF last.outcome = "killed" /\ last.at = "cur_loop" THEN "curated"
    ELSE "none"

Snapshot ==
    [clean |-> ~dirty,
     fullOk |-> /\ last.outcome = "complete"
                /\ args.cli = "ingest"
                /\ args.build_curated
                /\ post.executed
                /\ ing.failed = <<>>
                /\ cur.failed = <<>>,
     killed |-> KilledStage,
     killedSelected |->
         IF KilledStage = "ingest"
         THEN { ing.selected[i].report_month : i \in 1..Len(ing.selected) }
         ELSE IF KilledStage = "curated"
         THEN { cur.months[i] : i \in 1..Len(cur.months) }
         ELSE {},
     killedProcessed |->
         IF KilledStage = "ingest"
         THEN { ing.processed[i].report_month : i \in 1..Len(ing.processed) }
         ELSE IF KilledStage = "curated"
         THEN { cur.processed[i].report_month : i \in 1..Len(cur.processed) }
         ELSE {},
     killedStale |->
         IF KilledStage = "curated"
         THEN { cur.processed[i].report_month : i \in
                  { j \in 1..Len(cur.processed) :
                      /\ cur.processed[j].report_month \in DOMAIN cur.loaded
                      /\ cur.loaded[cur.processed[j].report_month].raw_sha256
                           = cur.processed[j].raw_sha256 } }
         ELSE {}]

\* str(error) of the exception raised at a point of the try block.
ErrorMessage(point) ==
    CASE point = "transform" -> "transform raised"
      [] point = "write_report" -> "report write failed"
      [] OTHER -> "schema file invalid"

FailurePoints == {"transform", "write_report"}

\* ingest_workbook begins with load_schema_definition, which raises for a
\* schema file that is missing, unreadable or invalid.
SchemaPoint == "load_schema_definition"

---------------------------------------------------------------------------
(* The clock and the run summaries. *)

\* run_id = datetime.now(timezone.utc).strftime("%Y%m%dT%H%M%SZ")
run_id(now) == <<"run", Seconds(now)>>

\* The report directory: the run summaries (runs/<run_id>_*.json and latest_*.json)
\* and the reports of the months (<month>_ingest.json, <month>_curated.json).
NoReports ==
    [ingestRuns |-> <<>>, ingestLatest |-> <<>>, curatedRuns |-> <<>>, curatedLatest |-> <<>>,
     ingestMonth |-> <<>>, curatedMonth |-> <<>>]

\* The report ingest_workbook returns; written_by is the invocation that wrote
\* the file (what its modification time tells).
IngestMonthReport(file_info, content, run) ==
    [schema_id |-> SCHEMA_ID,
     input_file |-> file_info.path,
     report_month |-> file_info.report_month,
     totals |-> content,
     written_by |-> run]

\* run_curated_build, lines 269-278.
CuratedMonthReport(month, raw_checksum, now, run) ==
    [schema_id |-> CURATED_SCHEMA_ID,
     report_month |-> month,
     raw_sha256 |-> raw_checksum,
     generated_at_utc |-> utc_now_iso(now),
     written_by |-> run]

\* ingest_all_months.main, lines 206 and 208-211: <report_month>_ingest.json.
WriteIngestMonthReport(rep, report) ==
    [rep EXCEPT !.ingestMonth = Upsert(@, report.report_month, report)]

\* run_curated_build, lines 279-280: <month>_curated.json.
WriteCuratedMonthReport(rep, report) ==
    [rep EXCEPT !.curatedMonth = Upsert(@, report.report_month, report)]

\* A variant of the run summary that counts the files discovery set aside too.
IngestRunSummary_counts_skipped(loc, post_steps, now) ==
    [ran_at_utc |-> Seconds(now),
     discovered_file_count |-> Len(loc.selected) + Len(loc.skips),
     processed_count |-> Len(loc.processed),
     unchanged_count |-> Len(loc.unchanged),
     failed_count |-> Len(loc.failed),
     discovery_skipped_count |-> Len(loc.skips),
     post_steps |-> post_steps]

\* ingest_all_months.main, lines 308-324.
IngestRunSummary(loc, post_steps, now) ==
    [ran_at_utc |-> Seconds(now),
     discovered_file_count |-> Len(loc.selected),
     processed_count |-> Len(loc.processed),
     unchanged_count |-> Len(loc.unchanged),
     failed_count |-> Len(loc.failed),
     discovery_skipped_count |-> Len(loc.skips),
     post_steps |-> post_steps]

\* run_curated_build, lines 303-317.
CuratedRunSummary(loc, now) ==
    [ran_at_utc |-> Seconds(now),
     discovered_raw_month_count |-> Len(loc.months),
     processed_count |-> Len(loc.processed),
     unchanged_count |-> Len(loc.unchanged),
     failed_count |-> Len(loc.failed),
     discovery_skipped_count |-> Len(loc.skips)]

\* ingest_all_months.main, lines 326-331: the summary under its run_id and as latest.
WriteIngestReports(rep, summary, now) ==
    [rep EXCEPT !.ingestRuns = Upsert(@, run_id(now), summary),
                !.ingestLatest = summary]

\* run_curated_build, lines 319-323.
WriteCuratedReports(rep, summary, now) ==
    [rep EXCEPT !.curatedRuns = Upsert(@, run_id(now), summary),
                !.curatedLatest = summary]

---------------------------------------------------------------------------
(* ingest_all_months.main *)

\* A variant of IngestIsUnchanged that looks for the raw parquet of the month
\* instead of the state record.
IngestIsUnchanged_by_output(state, key, checksum, report_month) ==
    report_month \in DOMAIN rawOut

\* Line 185: the change-detection test of the raw-ingest stage.
IngestIsUnchanged(state, key, checksum, report_month) ==
    /\ key \in DOMAIN state
    /\ state[key].sha256 = checksum
    /\ state[key].report_month = report_month

\* Lines 213-224: the state record of a file that was ingested.
IngestRecord(file_info, checksum) ==
    [file_name |-> file_info.file_name,
     report_month |-> file_info.report_month,
     sha256 |-> checksum,
     parquet_path |-> PartitionDir(file_info.report_month)]

\* Lines 213-232: the end of the try block.
IngestOnSuccess(loc, file_info, checksum) ==
    [loc EXCEPT
        !.state = Upsert(@, normalize_state_path_key(file_info.path),
                         IngestRecord(file_info, checksum)),
        !.processed = Append(@, [file |-> file_info.path,
                                  report_month |-> file_info.report_month]),
        !.idx = @ + 1]

\* A variant of IngestOnError that leaves the loop at the first failure.
IngestOnError_break(loc, file_info, error) ==
    [loc EXCEPT
        !.failed = Append(@, [file |-> file_info.path,
                               report_month |-> file_info.report_month,
                               error |-> error]),
        !.idx = Len(loc.selected) + 1]

\* A variant of IngestOnError for a try block that updates the state before the
\* write that fails.
IngestOnError_records(loc, file_info, error) ==
    [loc EXCEPT
        !.state = Upsert(@, normalize_state_path_key(file_info.path),
                         [file_name |-> file_info.file_name,
                          report_month |-> file_info.report_month,
                          sha256 |-> file_sha256(inputs[file_info.path].content),
                          parquet_path |-> PartitionDir(file_info.report_month)]),
        !.failed = Append(@, [file |-> file_info.path,
                               report_month |-> file_info.report_month,
                               error |-> error]),
        !.idx = @ + 1]

\* Lines 233-240: except Exception as error.
IngestOnError(loc, file_info, error) ==
    [loc EXCEPT
        !.failed = Append(@, [file |-> file_info.path,
                               report_month |-> file_info.report_month,
                               error |-> error]),
        !.idx = @ + 1]

\* Lines 354-359: the exit code of ingest_all_months.main.
IngestExitCode(failed, build_curated_error, generate_kpis_error) ==
    IF failed # <<>> \/ build_curated_error # "none" \/ generate_kpis_error # "none"
    THEN 1 ELSE 0

\* Line 260: sorted({item["report_month"] for item in processed}), as a set.
ProcessedMonths(processed) == { processed[i].report_month : i \in 1..Len(processed) }

\* Line 263: months_for_curated = processed_months if processed_months else None.
MonthsForCurated(processed_months) ==
    IF processed_months # {} THEN <<processed_months>> ELSE <<>>

IngestCurrent == ing.selected[ing.idx]

IngestInLoop == pc = "ingest_loop" /\ ing.idx <= Len(ing.selected)

\* A variant of the unchanged branch that forgets the state record of the file.
IngestOnUnchanged_forgets(loc, file_info) ==
    [loc EXCEPT
        !.state = Without(@, normalize_state_path_key(file_info.path)),
        !.unchanged = Append(@, [file |-> file_info.path,
                                  report_month |-> file_info.report_month]),
        !.idx = @ + 1]

\* Lines 186-192: the unchanged branch of the loop.
IngestOnUnchanged(loc, file_info) ==
    [loc EXCEPT
        !.unchanged = Append(@, [file |-> file_info.path,
                                  report_month |-> file_info.report_month]),
        !.idx = @ + 1]

\* Lines 156-177: load the state, discover the input files.
IngestStart(build_curated) ==
    /\ pc = "idle"
    /\ runs < MaxRuns
    /\ LET st == load_state(ingestFile)
           disc == discover_input_files(inputs)
       IN  IF st.raised
           THEN /\ pc' = "idle"
                /\ last' = Raised("load_state")
                /\ ing' = [IngBlank EXCEPT !.fileAtStart = ingestFile]
           ELSE /\ pc' = "ingest_loop"
                /\ last' = Running
                /\ ing' = [IngBlank EXCEPT !.selected = disc.selected,
                                           !.skips = disc.skipped,
                                           !.state = st.files,
                                           !.loaded = st.files,
                                           !.schema_id = st.schema_id,
                                           !.fileAtStart = ingestFile]
    /\ args' = [cli |-> "ingest", build_curated |-> build_curated]
    /\ cur' = CurBlank
    /\ post' = [PostBlank EXCEPT !.enabled = build_curated]
    /\ prev' = Snapshot
    /\ dirty' = FALSE
    /\ runs' = runs + 1
    /\ UNCHANGED <<inputs, rawOut, curOut, ingestFile, curatedFile, envSteps, faults,
                   clock, reports, schema>>

\* Line 182 raising OSError: it is outside the try block, so main ends there.
IngestHashError ==
    /\ IngestInLoop
    /\ faults < MaxFaults
    /\ faults' = faults + 1
    /\ pc' = "idle"
    /\ last' = Raised("ingest.file_sha256")
    /\ UNCHANGED <<inputs, rawOut, curOut, ingestFile, curatedFile, args, ing, cur, post,
                   prev, runs, envSteps, dirty,
                   clock, reports, schema>>

\* Lines 185-192: the file is as the state remembers it.
IngestUnchanged ==
    /\ IngestInLoop
    /\ LET file_info == IngestCurrent
           key == normalize_state_path_key(file_info.path)
           checksum == file_sha256(inputs[file_info.path].content)
       IN  /\ IngestIsUnchanged(ing.state, key, checksum, file_info.report_month)
           /\ ing' = IngestOnUnchanged(ing, file_info)
    /\ UNCHANGED <<inputs, rawOut, curOut, ingestFile, curatedFile, pc, args, cur, post,
                   last, prev, runs, envSteps, dirty, faults,
                   clock, reports, schema>>

\* Lines 194-232: the workbook is ingested, parquet and report are written.
IngestProcess ==
    /\ IngestInLoop
    /\ schema = "ok"
    /\ LET file_info == IngestCurrent
           key == normalize_state_path_key(file_info.path)
           checksum == file_sha256(inputs[file_info.path].content)
       IN  /\ ~IngestIsUnchanged(ing.state, key, checksum, file_info.report_month)
           /\ rawOut' = Upsert(rawOut, file_info.report_month,
                               [src |-> file_info.file_name,
                                content |-> inputs[file_info.path].content,
                                mtime |-> runs])
           /\ reports' = WriteIngestMonthReport(reports,
                             IngestMonthReport(file_info, inputs[file_info.path].content, runs))
           /\ ing' = IngestOnSuccess(ing, file_info, checksum)
    /\ UNCHANGED <<inputs, curOut, ingestFile, curatedFile, pc, args, cur, post,
                   last, prev, runs, envSteps, dirty, faults,
                   clock, schema>>

\* Lines 194-240 when the try block raises: in ingest_workbook (nothing is
\* written yet) or while writing the report (the parquet is written already).
IngestFail(point) ==
    /\ IngestInLoop
    /\ schema = "ok"
    /\ faults < MaxFaults
    /\ faults' = faults + 1
    /\ LET file_info == IngestCurrent
           key == normalize_state_path_key(file_info.path)
           checksum == file_sha256(inputs[file_info.path].content)
       IN  /\ ~IngestIsUnchanged(ing.state, key, checksum, file_info.report_month)
           /\ rawOut' = IF point = "write_report"
                        THEN Upsert(rawOut, file_info.report_month,
                                    [src |-> file_info.file_name,
                                     content |-> inputs[file_info.path].content,
                                     mtime |-> runs])
                        ELSE rawOut
           /\ ing' = IngestOnError(ing, file_info, ErrorMessage(point))
    /\ UNCHANGED <<inputs, curOut, ingestFile, curatedFile, pc, args, cur, post,
                   last, prev, runs, envSteps, dirty,
                   clock, reports, schema>>

\* Lines 194-240 when load_schema_definition raises in ingest_workbook
\* (ingest_sales_month.py line 57): the except clause of the loop catches it.
IngestSchemaError ==
    /\ IngestInLoop
    /\ schema # "ok"
    /\ LET file_info == IngestCurrent
           key == normalize_state_path_key(file_info.path)
           checksum == file_sha256(inputs[file_info.path].content)
       IN  /\ ~IngestIsUnchanged(ing.state, key, checksum, file_info.report_month)
           /\ ing' = IngestOnError(ing, file_info, ErrorMessage(SchemaPoint))
    /\ UNCHANGED <<inputs, rawOut, curOut, ingestFile, curatedFile, pc, args, cur, post,
                   last, prev, runs, envSteps, dirty, faults,
                   clock, reports, schema>>

\* Line 242, save_state: write_text has opened (and truncated) the state file.
IngestSaveBegin ==
    /\ pc = "ingest_loop"
    /\ ing.idx > Len(ing.selected)
    /\ ingestFile' = save_state_open(ingestFile)
    /\ pc' = "ingest_saving"
    /\ UNCHANGED <<inputs, rawOut, curOut, curatedFile, args, ing, cur, post,
                   last, prev, runs, envSteps, dirty, faults,
                   clock, reports, schema>>

\* Line 242, save_state: the text is written and the file closed.
IngestSaveEnd ==
    /\ pc = "ingest_saving"
    /\ ingestFile' = save_state_write(ing.schema_id, ing.state, clock)
    /\ pc' = IF args.build_curated THEN "chain_curated" ELSE "ingest_finish"
    /\ UNCHANGED <<inputs, rawOut, curOut, curatedFile, args, ing, cur, post,
                   last, prev, runs, envSteps, dirty, faults,
                   clock, reports, schema>>

---------------------------------------------------------------------------
(* build_curated_sales_monthly.run_curated_build and main *)

\* A variant of previous_matches that does not look for the curated parquet.
previous_matches_no_exists(state, month, raw_checksum, curated) ==
    /\ month \in DOMAIN state
    /\ state[month].raw_sha256 = raw_checksum

\* Lines 248-251: the change-detection test of the curated stage.
previous_matches(state, month, raw_checksum, curated) ==
    /\ month \in DOMAIN state
    /\ state[month].raw_sha256 = raw_checksum
    /\ state[month].curated_parquet_path \in { PartitionDir(m) : m \in DOMAIN curated }

\* Lines 282-290: the state record of a month that was curated.
CuratedRecord(month, raw_path, raw_checksum) ==
    [raw_parquet_path |-> raw_path,
     raw_sha256 |-> raw_checksum,
     curated_parquet_path |-> PartitionDir(month)]

\* Lines 282-291: the end of the try block.
CuratedOnSuccess(loc, month, raw_checksum) ==
    [loc EXCEPT
        !.state = Upsert(@, month, CuratedRecord(month, loc.mapping[month], raw_checksum)),
        !.processed = Append(@, [report_month |-> month, raw_sha256 |-> raw_checksum]),
        !.idx = @ + 1]

\* Lines 292-299: except Exception as error.
CuratedOnError(loc, month, error) ==
    [loc EXCEPT
        !.failed = Append(@, [report_month |-> month, error |-> error]),
        !.idx = @ + 1]

\* Lines 360-361: the exit code of build_curated_sales_monthly.main.
CuratedExitCode(failed_count) == IF failed_count > 0 THEN 1 ELSE 0

\* A variant of the start of run_curated_build that does not apply the month filter.
CuratedBegin_unfiltered(selected_months) ==
    LET disc == discover_raw_partitions(rawOut)
        st == load_state_curated(curatedFile)
    IN  [raised |-> st.raised,
         loc |-> [CurBlank EXCEPT !.selected_months = selected_months,
                                  !.months = Sorted(DOMAIN disc.mapping),
                                  !.mapping = disc.mapping,
                                  !.skips = disc.skipped,
                                  !.state = st.months,
                                  !.loaded = st.months,
                                  !.schema_id = st.schema_id,
                                  !.fileAtStart = curatedFile]]

\* Lines 220-241: discover the raw partitions, apply the month filter, load the state.
CuratedBegin(selected_months) ==
    LET disc == discover_raw_partitions(rawOut)
        raw_mapping ==
            IF selected_months # <<>>
            THEN [m \in { x \in DOMAIN disc.mapping : x \in selected_months[1] } |->
                     disc.mapping[m]]
            ELSE disc.mapping
        st == load_state_curated(curatedFile)
    IN  [raised |-> st.raised,
         loc |-> [CurBlank EXCEPT !.selected_months = selected_months,
                                  !.months = Sorted(DOMAIN raw_mapping),
                                  !.mapping = raw_mapping,
                                  !.skips = disc.skipped,
                                  !.state = st.months,
                                  !.loaded = st.months,
                                  !.schema_id = st.schema_id,
                                  !.fileAtStart = curatedFile]]

CuratedCurrent == cur.months[cur.idx]

CuratedInLoop == pc = "cur_loop" /\ cur.idx <= Len(cur.months)

Chained == args.cli = "ingest"

\* The month filters build_curated_sales_monthly.main may be given (--report-month).
MonthFilters == {<<>>} \cup { <<S>> : S \in SUBSET Months \ {{}} }

\* build_curated_sales_monthly.main, lines 346-352, up to the loop of run_curated_build.
CuratedMainStart(selected_months) ==
    /\ pc = "idle"
    /\ runs < MaxRuns
    /\ LET b == CuratedBegin(selected_months)
       IN  IF b.raised
           THEN /\ pc' = "idle"
                /\ last' = Raised("load_state")
                /\ cur' = [CurBlank EXCEPT !.selected_months = selected_months,
                                           !.fileAtStart = curatedFile]
           ELSE /\ pc' = "cur_loop"
                /\ last' = Running
                /\ cur' = b.loc
    /\ args' = [cli |-> "curated", build_curated |-> FALSE]
    /\ ing' = IngBlank
    /\ post' = PostBlank
    /\ prev' = Snapshot
    /\ dirty' = FALSE
    /\ runs' = runs + 1
    /\ UNCHANGED <<inputs, rawOut, curOut, ingestFile, curatedFile, envSteps, faults,
                   clock, reports, schema>>

\* ingest_all_months.main, lines 262-271 and 281-282: --build-curated calls
\* run_curated_build for the months just ingested, and catches what it raises.
ChainCurated ==
    /\ pc = "chain_curated"
    /\ LET b == CuratedBegin(MonthsForCurated(ProcessedMonths(ing.processed)))
       IN  IF b.raised
           THEN /\ pc' = "ingest_finish"
                /\ post' = [post EXCEPT !.error = "load_state"]
                /\ cur' = [CurBlank EXCEPT !.selected_months = b.loc.selected_months,
                                           !.fileAtStart = curatedFile]
           ELSE /\ pc' = "cur_loop"
                /\ post' = post
                /\ cur' = b.loc
    /\ UNCHANGED <<inputs, rawOut, curOut, ingestFile, curatedFile, args, ing,
                   last, prev, runs, envSteps, dirty, faults,
                   clock, reports, schema>>

\* Line 245 raising OSError: it is outside the try block, so run_curated_build
\* ends there; the chained caller catches it, the stand-alone main does not.
CuratedHashError ==
    /\ CuratedInLoop
    /\ faults < MaxFaults
    /\ faults' = faults + 1
    /\ IF Chained
       THEN /\ pc' = "ingest_finish"
            /\ post' = [post EXCEPT !.error = "curated.file_sha256"]
            /\ last' = last
       ELSE /\ pc' = "idle"
            /\ post' = post
            /\ last' = Raised("curated.file_sha256")
    /\ UNCHANGED <<inputs, rawOut, curOut, ingestFile, curatedFile, args, ing, cur,
                   prev, runs, envSteps, dirty,
                   clock, reports, schema>>

\* Lines 248-260: the month is as the state remembers it.
CuratedUnchanged ==
    /\ CuratedInLoop
    /\ LET month == CuratedCurrent
           raw_checksum == file_sha256(RawBytes(rawOut[month]))
       IN  /\ previous_matches(cur.state, month, raw_checksum, curOut)
           /\ cur' = [cur EXCEPT
                        !.unchanged = Append(@, [report_month |-> month]),
                        !.idx = @ + 1]
    /\ UNCHANGED <<inputs, rawOut, curOut, ingestFile, curatedFile, pc, args, ing, post,
                   last, prev, runs, envSteps, dirty, faults,
                   clock, reports, schema>>

\* Lines 262-291: the curated table is built, parquet and report are written.
CuratedProcess ==
    /\ CuratedInLoop
    /\ LET month == CuratedCurrent
           raw_checksum == file_sha256(RawBytes(rawOut[month]))
       IN  /\ ~previous_matches(cur.state, month, raw_checksum, curOut)
           /\ curOut' = Upsert(curOut, month, [raw |-> RawBytes(rawOut[month])])
           /\ reports' = WriteCuratedMonthReport(reports,
                             CuratedMonthReport(month, raw_checksum, clock, runs))
           /\ cur' = CuratedOnSuccess(cur, month, raw_checksum)
    /\ UNCHANGED <<inputs, rawOut, ingestFile, curatedFile, pc, args, ing, post,
                   last, prev, runs, envSteps, dirty, faults,
                   clock, schema>>

\* Lines 262-299 when the try block raises: in build_curated_table (nothing is
\* written yet) or while writing the report (the parquet is written already).
CuratedFail(point) ==
    /\ CuratedInLoop
    /\ faults < MaxFaults
    /\ faults' = faults + 1
    /\ LET month == CuratedCurrent
           raw_checksum == file_sha256(RawBytes(rawOut[month]))
       IN  /\ ~previous_matches(cur.state, month, raw_checksum, curOut)
           /\ curOut' = IF point = "write_report"
                        THEN Upsert(curOut, month, [raw |-> RawBytes(rawOut[month])])
                        ELSE curOut
           /\ cur' = CuratedOnError(cur, month, ErrorMessage(point))
    /\ UNCHANGED <<inputs, rawOut, ingestFile, curatedFile, pc, args, ing, post,
                   last, prev, runs, envSteps, dirty,
                   clock, reports, schema>>

\* Line 301, save_state: write_text has opened (and truncated) the state file.
CuratedSaveBegin ==
    /\ pc = "cur_loop"
    /\ cur.idx > Len(cur.months)
    /\ curatedFile' = save_state_curated_open(curatedFile)
    /\ pc' = "cur_saving"
    /\ UNCHANGED <<inputs, rawOut, curOut, ingestFile, args, ing, cur, post,
                   last, prev, runs, envSteps, dirty, faults,
                   clock, reports, schema>>

\* Line 301, save_state: the text is written and the file closed.
CuratedSaveEnd ==
    /\ pc = "cur_saving"
    /\ curatedFile' = save_state_curated_write(cur.schema_id, cur.state, clock)
    /\ pc' = "cur_report"
    /\ UNCHANGED <<inputs, rawOut, curOut, ingestFile, args, ing, cur, post,
                   last, prev, runs, envSteps, dirty, faults,
                   clock, reports, schema>>

\* Lines 303-327 and the return: to ingest_all_months.main (lines 272-280) or
\* to build_curated_sales_monthly.main (lines 354-361).
CuratedFinish ==
    /\ pc = "cur_report"
    /\ IF Chained
       THEN /\ pc' = "ingest_finish"
            /\ post' = [post EXCEPT !.executed = TRUE, !.failed_count = Len(cur.failed)]
            /\ last' = last
       ELSE /\ pc' = "idle"
            /\ post' = post
            /\ last' = Completed(CuratedExitCode(Len(cur.failed)))
    /\ reports' = WriteCuratedReports(reports, CuratedRunSummary(cur, clock), clock)
    /\ UNCHANGED <<inputs, rawOut, curOut, ingestFile, curatedFile, args, ing, cur,
                   prev, runs, envSteps, dirty, faults, clock, schema>>

\* ingest_all_months.main, lines 308-359: the run summary and the exit code
\* (--generate-kpis is not given).
IngestFinish ==
    /\ pc = "ingest_finish"
    /\ pc' = "idle"
    /\ last' = Completed(IngestExitCode(ing.failed, post.error, "none"))
    /\ reports' = WriteIngestReports(reports, IngestRunSummary(ing, post, clock), clock)
    /\ UNCHANGED <<inputs, rawOut, curOut, ingestFile, curatedFile, args, ing, cur, post,
                   prev, runs, envSteps, dirty, faults, clock, schema>>

---------------------------------------------------------------------------
(* The environment: the process is killed; the operator changes files. *)

Kill ==
    /\ pc # "idle"
    /\ faults < MaxFaults
    /\ faults' = faults + 1
    /\ pc' = "idle"
    /\ last' = [outcome |-> "killed", exit |-> -1, at |-> pc]
    /\ UNCHANGED <<inputs, rawOut, curOut, ingestFile, curatedFile, args, ing, cur, post,
                   prev, runs, envSteps, dirty,
                   clock, reports, schema>>

\* A workbook is delivered, replaced or touched, as one of at most budget
\* operator actions.
Deliver(budget, name, mtime, content) ==
    /\ pc = "idle"
    /\ envSteps < budget
    /\ IF name \in DOMAIN inputs
       THEN inputs[name] # [mtime |-> mtime, content |-> content]
       ELSE TRUE
    /\ inputs' = Upsert(inputs, name, [mtime |-> mtime, content |-> content])
    /\ envSteps' = envSteps + 1
    /\ dirty' = TRUE
    /\ UNCHANGED <<rawOut, curOut, ingestFile, curatedFile, pc, args, ing, cur, post,
                   last, prev, runs, faults,
                   clock, reports, schema>>

PutInput(name, mtime, content) == Deliver(MaxEnvSteps, name, mtime, content)

\* A raw parquet is deleted behind the pipeline's back.
DeleteRawOutput(month) ==
    /\ pc = "idle"
    /\ envSteps < MaxEnvSteps
    /\ month \in DOMAIN rawOut
    /\ rawOut' = Without(rawOut, month)
    /\ envSteps' = envSteps + 1
    /\ dirty' = TRUE
    /\ UNCHANGED <<inputs, curOut, ingestFile, curatedFile, pc, args, ing, cur, post,
                   last, prev, runs, faults,
                   clock, reports, schema>>

\* A curated parquet is deleted behind the pipeline's back.
DeleteCuratedOutput(month) ==
    /\ pc = "idle"
    /\ envSteps < MaxEnvSteps
    /\ month \in DOMAIN curOut
    /\ curOut' = Without(curOut, month)
    /\ envSteps' = envSteps + 1
    /\ dirty' = TRUE
    /\ UNCHANGED <<inputs, rawOut, ingestFile, curatedFile, pc, args, ing, cur, post,
                   last, prev, runs, faults,
                   clock, reports, schema>>

\* The schema file is damaged behind the pipeline's back.
CorruptSchema ==
    /\ pc = "idle"
    /\ envSteps < MaxEnvSteps
    /\ schema = "ok"
    /\ schema' = "invalid"
    /\ envSteps' = envSteps + 1
    /\ dirty' = TRUE
    /\ UNCHANGED <<inputs, rawOut, curOut, ingestFile, curatedFile, pc, args, ing, cur, post,
                   last, prev, runs, faults, clock, reports>>

\* A state file is put in place behind the pipeline's back: one written by
\* another version of the scripts, or one edited by hand.
StateFileShapes == {"not_mapping", "foreign", "foreign_same_records"}

ShapedStateFile(file, schema_id, shape) ==
    CASE shape = "not_mapping" -> NotMappingFile(schema_id)
      [] shape = "foreign" -> CompleteFile(ForeignSchemaId, 0, <<>>)
      [] OTHER -> [file EXCEPT !.schema_id = ForeignSchemaId]

PutStateFile(stage, shape) ==
    /\ pc = "idle"
    /\ envSteps < MaxEnvSteps
    /\ IF stage = "ingest"
       THEN /\ shape = "foreign_same_records" => ingestFile.kind = "ok"
            /\ ingestFile' = ShapedStateFile(ingestFile, SCHEMA_ID, shape)
            /\ curatedFile' = curatedFile
       ELSE /\ shape = "foreign_same_records" => curatedFile.kind = "ok"
            /\ curatedFile' = ShapedStateFile(curatedFile, CURATED_SCHEMA_ID, shape)
            /\ ingestFile' = ingestFile
    /\ envSteps' = envSteps + 1
    /\ dirty' = TRUE
    /\ UNCHANGED <<inputs, rawOut, curOut, pc, args, ing, cur, post,
                   last, prev, runs, faults, clock, reports, schema>>

\* Time passes between two invocations.
Tick ==
    /\ pc = "idle"
    /\ clock < MaxClock
    /\ clock' = clock + 1
    /\ UNCHANGED <<inputs, rawOut, curOut, ingestFile, curatedFile, pc, args, ing, cur, post,
                   last, prev, runs, envSteps, dirty, faults, reports, schema>>

---------------------------------------------------------------------------
(* The pipeline. *)

\* The input directory at the start: any of the files, as first delivered.
FirstDelivery == [mtime |-> 1, content |-> 1]

InitialDirectories == { [n \in S |-> FirstDelivery] : S \in SUBSET Names }

Init ==
    /\ inputs \in InitialDirectories
    /\ rawOut = <<>>
    /\ curOut = <<>>
    /\ ingestFile = AbsentFile
    /\ curatedFile = AbsentFile
    /\ pc = "idle"
    /\ args = ArgsNone
    /\ ing = IngBlank
    /\ cur = CurBlank
    /\ post = PostBlank
    /\ last = LastNone
    /\ prev = [clean |-> FALSE, fullOk |-> FALSE, killed |-> "none", killedSelected |-> {},
               killedProcessed |-> {}, killedStale |-> {}]
    /\ runs = 0
    /\ envSteps = 0
    /\ dirty = FALSE
    /\ faults = 0
    /\ clock = 0
    /\ reports = NoReports
    /\ schema = "ok"

Next ==
    \/ \E build_curated \in BOOLEAN : IngestStart(build_curated)
    \/ IngestHashError
    \/ IngestUnchanged
    \/ IngestProcess
    \/ \E point \in FailurePoints : IngestFail(point)
    \/ IngestSchemaError
    \/ IngestSaveBegin
    \/ IngestSaveEnd
    \/ ChainCurated
    \/ \E selected_months \in MonthFilters : CuratedMainStart(selected_months)
    \/ CuratedHashError
    \/ CuratedUnchanged
    \/ CuratedProcess
    \/ \E point \in FailurePoints : CuratedFail(point)
    \/ CuratedSaveBegin
    \/ CuratedSaveEnd
    \/ CuratedFinish
    \/ IngestFinish
    \/ Kill
    \/ \E name \in DeliveryNames, mtime \in 1..MaxMtime, content \in 1..MaxContent :
          PutInput(name, mtime, content)
    \/ \E month \in Months : DeleteRawOutput(month)
    \/ \E month \in Months : DeleteCuratedOutput(month)
    \/ CorruptSchema

Spec == Init /\ [][Next]_vars

---------------------------------------------------------------------------
(* Runs without kills, errors or operator actions, with time passing between them. *)

HistoryNext ==
    \/ \E build_curated \in BOOLEAN : IngestStart(build_curated)
    \/ IngestUnchanged
    \/ IngestProcess
    \/ IngestSaveBegin
    \/ IngestSaveEnd
    \/ ChainCurated
    \/ \E selected_months \in MonthFilters : CuratedMainStart(selected_months)
    \/ CuratedUnchanged
    \/ CuratedProcess
    \/ CuratedSaveBegin
    \/ CuratedSaveEnd
    \/ CuratedFinish
    \/ IngestFinish
    \/ Tick

SpecHistory == Init /\ [][HistoryNext]_vars

---------------------------------------------------------------------------
(* Raw-ingest runs without kills or errors, with workbooks delivered between them. *)

DeliveryNext ==
    \/ IngestStart(FALSE)
    \/ IngestUnchanged
    \/ IngestProcess
    \/ IngestSaveBegin
    \/ IngestSaveEnd
    \/ IngestFinish
    \/ \E name \in DeliveryNames, mtime \in 1..MaxMtime, content \in 1..MaxContent :
          Deliver(MaxDeliveries, name, mtime, content)

SpecDelivery == Init /\ [][DeliveryNext]_vars

---------------------------------------------------------------------------
(* Runs without kills or errors over state files that may have been replaced. *)

Stages == {"ingest", "curated"}

StateNext ==
    \/ \E build_curated \in BOOLEAN : IngestStart(build_curated)
    \/ IngestUnchanged
    \/ IngestProcess
    \/ IngestSaveBegin
    \/ IngestSaveEnd
    \/ ChainCurated
    \/ \E selected_months \in MonthFilters : CuratedMainStart(selected_months)
    \/ CuratedUnchanged
    \/ CuratedProcess
    \/ CuratedSaveBegin
    \/ CuratedSaveEnd
    \/ CuratedFinish
    \/ IngestFinish
    \/ Tick
    \/ \E stage \in Stages, shape \in StateFileShapes : PutStateFile(stage, shape)

SpecState == Init /\ [][StateNext]_vars

---------------------------------------------------------------------------
(* Concurrent invocations of ingest_all_months.main on one output root.  Here *)
(* pc and ing hold, for each invocation, its position and its locals.        *)

Procs == 1..MaxProcs

Saving == {"ingest_saving", "ingest_saving_raced"}

ConcInLoop(p) == pc[p] = "ingest_loop" /\ ing[p].idx <= Len(ing[p].selected)

ConcCurrent(p) == ing[p].selected[ing[p].idx]

ConcIsUnchanged(p) ==
    LET file_info == ConcCurrent(p)
    IN  IngestIsUnchanged(ing[p].state, normalize_state_path_key(file_info.path),
                          file_sha256(inputs[file_info.path].content),
                          file_info.report_month)

ConcInit ==
    /\ inputs \in InitialDirectories
    /\ rawOut = <<>>
    /\ curOut = <<>>
    /\ ingestFile = AbsentFile
    /\ curatedFile = AbsentFile
    /\ pc = [p \in Procs |-> "idle"]
    /\ args = [cli |-> "ingest", build_curated |-> FALSE]
    /\ ing = [p \in Procs |-> IngBlank]
    /\ cur = CurBlank
    /\ post = PostBlank
    /\ last = LastNone
    /\ prev = [clean |-> FALSE, fullOk |-> FALSE, killed |-> "none", killedSelected |-> {},
               killedProcessed |-> {}, killedStale |-> {}]
    /\ runs = 0
    /\ envSteps = 0
    /\ dirty = FALSE
    /\ faults = 0
    /\ clock = 0
    /\ reports = NoReports
    /\ schema = "ok"

\* Lines 172-177: load_state reads whatever is on disk at that moment.
ConcStart(p) ==
    /\ pc[p] = "idle"
    /\ LET st == load_state(ingestFile)
           disc == discover_input_files(inputs)
       IN  IF st.raised
           THEN /\ pc' = [pc EXCEPT ![p] = "raised"]
                /\ ing' = ing
           ELSE /\ pc' = [pc EXCEPT ![p] = "ingest_loop"]
                /\ ing' = [ing EXCEPT ![p] =
                               [IngBlank EXCEPT !.selected = disc.selected,
                                                !.skips = disc.skipped,
                                                !.state = st.files,
                                                !.loaded = st.files,
                                                !.schema_id = st.schema_id,
                                                !.fileAtStart = ingestFile]]
    /\ runs' = runs + 1
    /\ UNCHANGED <<inputs, rawOut, curOut, ingestFile, curatedFile, args, cur, post, last,
                   prev, envSteps, dirty, faults, clock, reports, schema>>

\* Lines 185-192.
ConcUnchanged(p) ==
    /\ ConcInLoop(p)
    /\ ConcIsUnchanged(p)
    /\ ing' = [ing EXCEPT ![p].unchanged =
                              Append(@, [file |-> ConcCurrent(p).path,
                                         report_month |-> ConcCurrent(p).report_month]),
                          ![p].idx = @ + 1]
    /\ UNCHANGED <<inputs, rawOut, curOut, ingestFile, curatedFile, pc, args, cur, post, last,
                   prev, runs, envSteps, dirty, faults, clock, reports, schema>>

\* Lines 194-232.
ConcProcess(p) ==
    /\ ConcInLoop(p)
    /\ ~ConcIsUnchanged(p)
    /\ LET file_info == ConcCurrent(p)
       IN  /\ rawOut' = Upsert(rawOut, file_info.report_month,
                               [src |-> file_info.file_name,
                                content |-> inputs[file_info.path].content,
                                mtime |-> runs])
           /\ reports' = WriteIngestMonthReport(reports,
                             IngestMonthReport(file_info, inputs[file_info.path].content, p))
           /\ ing' = [ing EXCEPT ![p] =
                          IngestOnSuccess(ing[p], file_info,
                                          file_sha256(inputs[file_info.path].content))]
    /\ UNCHANGED <<inputs, curOut, ingestFile, curatedFile, pc, args, cur, post, last,
                   prev, runs, envSteps, dirty, faults, clock, schema>>

\* Lines 194-240 when ingest_workbook raises.
ConcFail(p) ==
    /\ ConcInLoop(p)
    /\ ~ConcIsUnchanged(p)
    /\ faults < MaxFaults
    /\ faults' = faults + 1
    /\ ing' = [ing EXCEPT ![p] = IngestOnError(ing[p], ConcCurrent(p), ErrorMessage("transform"))]
    /\ UNCHANGED <<inputs, rawOut, curOut, ingestFile, curatedFile, pc, args, cur, post, last,
                   prev, runs, envSteps, dirty, clock, reports, schema>>

\* Line 242, save_state: write_text opens (and truncates) the state file.  An
\* invocation that is writing the file at that moment is raced, and so is this one.
ConcSaveBegin(p) ==
    /\ pc[p] = "ingest_loop"
    /\ ing[p].idx > Len(ing[p].selected)
    /\ ingestFile' = save_state_open(ingestFile)
    /\ pc' = [q \in Procs |->
                 IF q = p
                 THEN (IF \E r \in Procs : pc[r] \in Saving
                       THEN "ingest_saving_raced" ELSE "ingest_saving")
                 ELSE IF pc[q] \in Saving THEN "ingest_saving_raced"
                 ELSE pc[q]]
    /\ UNCHANGED <<inputs, rawOut, curOut, curatedFile, args, ing, cur, post, last,
                   prev, runs, envSteps, dirty, faults, clock, reports, schema>>

\* Line 242, save_state: the text is written.  Two writers of one file leave
\* the text of the one that ends last, or a mixture of the two texts.
ConcSaveEnd(p) ==
    /\ pc[p] \in Saving
    /\ \/ ingestFile' = save_state_write(ing[p].schema_id, ing[p].state, clock)
       \/ pc[p] = "ingest_saving_raced" /\ ingestFile' = PartialFile
    /\ pc' = [pc EXCEPT ![p] = "done"]
    /\ UNCHANGED <<inputs, rawOut, curOut, curatedFile, args, ing, cur, post, last,
                   prev, runs, envSteps, dirty, faults, clock, reports, schema>>

\* A workbook is delivered while invocations run.
ConcDeliver(name) ==
    /\ envSteps < MaxEnvSteps
    /\ name \notin DOMAIN inputs
    /\ inputs' = Upsert(inputs, name, FirstDelivery)
    /\ envSteps' = envSteps + 1
    /\ UNCHANGED <<rawOut, curOut, ingestFile, curatedFile, pc, args, ing, cur, post, last,
                   prev, runs, dirty, faults, clock, reports, schema>>

ConcNext ==
    \/ \E p \in Procs : ConcStart(p)
    \/ \E p \in Procs : ConcUnchanged(p)
    \/ \E p \in Procs : ConcProcess(p)
    \/ \E p \in Procs : ConcFail(p)
    \/ \E p \in Procs : ConcSaveBegin(p)
    \/ \E p \in Procs : ConcSaveEnd(p)
    \/ \E name \in Names : ConcDeliver(name)

SpecConcurrent == ConcInit /\ [][ConcNext]_vars

---------------------------------------------------------------------------
(* Discovery on its own: the two discovery functions applied to any directory. *)

DiscMonths == { parse_report_month(n) : n \in DiscNames } \ {<<>>}

DiscInit ==
    /\ inputs \in { [n \in S |-> [mtime |-> t[n], content |-> 1]] :
                      S \in SUBSET DiscNames, t \in [DiscNames -> 1..MaxMtime] }
    /\ rawOut \in { [m \in S |-> [src |-> NameUniverse[1], content |-> 1, mtime |-> t]] :
                      S \in SUBSET DiscMonths, t \in 1..MaxMtime }
    /\ curOut = <<>>
    /\ ingestFile = AbsentFile
    /\ curatedFile = AbsentFile
    /\ pc = "idle"
    /\ args = ArgsNone
    /\ ing = IngBlank
    /\ cur = CurBlank
    /\ post = PostBlank
    /\ last = LastNone
    /\ prev = [clean |-> FALSE, fullOk |-> FALSE, killed |-> "none", killedSelected |-> {},
               killedProcessed |-> {}, killedStale |-> {}]
    /\ runs = 0
    /\ envSteps = 0
    /\ dirty = FALSE
    /\ faults = 0
    /\ clock = 0
    /\ reports = NoReports
    /\ schema = "ok"

\* ingest_all_months.main, line 174.
DiscoverInputs ==
    /\ pc = "idle"
    /\ LET disc == discover_input_files(inputs)
       IN  ing' = [ing EXCEPT !.selected = disc.selected, !.skips = disc.skipped]
    /\ pc' = "discovered"
    /\ UNCHANGED <<inputs, rawOut, curOut, ingestFile, curatedFile, args, cur, post,
                   last, prev, runs, envSteps, dirty, faults,
                   clock, reports, schema>>

\* run_curated_build, line 220.
DiscoverRaw ==
    /\ pc = "discovered"
    /\ LET disc == discover_raw_partitions(rawOut)
       IN  cur' = [cur EXCEPT !.mapping = disc.mapping,
                              !.months = Sorted(DOMAIN disc.mapping),
                              !.skips = disc.skipped]
    /\ pc' = "raw_discovered"
    /\ UNCHANGED <<inputs, rawOut, curOut, ingestFile, curatedFile, args, ing, post,
                   last, prev, runs, envSteps, dirty, faults,
                   clock, reports, schema>>

DiscNext ==
    \/ DiscoverInputs
    \/ DiscoverRaw

SpecDiscover == DiscInit /\ [][DiscNext]_vars

---------------------------------------------------------------------------
(* Properties. *)

MonthsOf(list) == { list[i].report_month : i \in 1..Len(list) }

Range(seq) == { seq[i] : i \in 1..Len(seq) }

InExactlyOne(m, P, U, F) ==
    \/ m \in P /\ m \notin U /\ m \notin F
    \/ m \notin P /\ m \in U /\ m \notin F
    \/ m \notin P /\ m \notin U /\ m \in F

CapturedMessages == { ErrorMessage(point) : point \in FailurePoints \cup {SchemaPoint} }

\* Every partition the loop has passed is in exactly one of the three lists,
\* and nothing else is.
Classified(selected_months, idx, loc) ==
    /\ Len(loc.processed) + Len(loc.unchanged) + Len(loc.failed) = idx - 1
    /\ \A j \in 1..(idx - 1) :
          InExactlyOne(selected_months[j], MonthsOf(loc.processed),
                       MonthsOf(loc.unchanged), MonthsOf(loc.failed))

IngestSelectedMonths == [i \in 1..Len(ing.selected) |-> ing.selected[i].report_month]

\* C1: an exception of the transform for one partition puts that partition in
\* failed with the captured message, and the loop goes on: every partition
\* the loop has passed, in either stage, is in exactly one of processed,
\* unchanged and failed, and a stage that reaches its save has passed them all.
C1_FailureIsolated ==
    /\ Classified(IngestSelectedMonths, ing.idx, ing)
    /\ Classified(cur.months, cur.idx, cur)
    /\ \A i \in 1..Len(ing.failed) : ing.failed[i].error \in CapturedMessages
    /\ \A i \in 1..Len(cur.failed) : cur.failed[i].error \in CapturedMessages
    /\ pc = "ingest_saving" => ing.idx = Len(ing.selected) + 1
    /\ pc = "cur_saving" => cur.idx = Len(cur.months) + 1

\* A raw-ingest run in which one partition failed and a later one was processed.
C1_Witness ==
    /\ pc = "ingest_saving"
    /\ Len(ing.failed) = 1
    /\ \E i \in 1..Len(ing.processed) :
          StrLess(ing.failed[1].report_month, ing.processed[i].report_month)

\* C2: a chained run that follows, with nothing changed in between, a chained
\* run that completed with nothing failed, processes nothing in either stage
\* and reports every discovered partition as unchanged (stated for behaviours
\* without any kill or error).
C2_Idempotent ==
    ( /\ pc = "idle"
      /\ last.outcome = "complete"
      /\ args.cli = "ingest"
      /\ args.build_curated
      /\ post.executed
      /\ prev.fullOk
      /\ prev.clean
      /\ faults = 0 )
    => /\ ing.processed = <<>>
       /\ cur.processed = <<>>
       /\ Len(ing.unchanged) = Len(ing.selected)
       /\ Len(cur.unchanged) = Len(cur.months)

\* The pc values of an invocation whose raw-ingest stage has saved its state.
AfterIngestSave == {"chain_curated", "cur_loop", "cur_saving", "cur_report", "ingest_finish"}

\* The raw-ingest stage of the latest invocation ran to its end, and no file
\* was changed since.
IngestStageEnded ==
    /\ args.cli = "ingest"
    /\ ~dirty
    /\ \/ pc \in AfterIngestSave
       \/ pc = "idle" /\ last.outcome = "complete"
       \/ pc = "idle" /\ last.outcome = "killed" /\ last.at \in AfterIngestSave

\* The curated stage of the latest invocation ran to its end, and no file was
\* changed since.
CuratedStageEnded ==
    /\ ~dirty
    /\ \/ pc = "cur_report"
       \/ pc = "ingest_finish" /\ post.executed
       \/ pc = "idle" /\ last.outcome = "complete" /\ (args.cli = "curated" \/ post.executed)
       \/ pc = "idle" /\ last.outcome = "killed" /\ last.at = "cur_report"
       \/ pc = "idle" /\ last.outcome = "killed" /\ last.at = "ingest_finish" /\ post.executed

\* The record under key is in after as it was in before (or in neither).
SameRecord(before, after, key) ==
    /\ key \in DOMAIN before <=> key \in DOMAIN after
    /\ key \in DOMAIN before => after[key] = before[key]

IngestKeys(list) == { normalize_state_path_key(list[i].file) : i \in 1..Len(list) }

\* C3: when a stage run has ended, the state file holds the state of the run;
\* the records that differ from those loaded are records of processed
\* partitions, each processed partition has the record of this run, and the
\* record of each failed partition is as loaded.
C3_StateFrame ==
    /\ IngestStageEnded =>
          /\ ingestFile.kind = "ok" /\ ingestFile.records = ing.state
          /\ \A key \in DOMAIN ing.loaded \cup DOMAIN ingestFile.records :
                ~SameRecord(ing.loaded, ingestFile.records, key)
                   => key \in IngestKeys(ing.processed)
          /\ \A i \in 1..Len(ing.processed) :
                LET key == normalize_state_path_key(ing.processed[i].file)
                IN  /\ key \in DOMAIN ingestFile.records
                    /\ ingestFile.records[key].sha256
                         = file_sha256(inputs[ing.processed[i].file].content)
                    /\ ingestFile.records[key].report_month = ing.processed[i].report_month
          /\ \A key \in IngestKeys(ing.failed) :
                SameRecord(ing.loaded, ingestFile.records, key)
    /\ CuratedStageEnded =>
          /\ curatedFile.kind = "ok" /\ curatedFile.records = cur.state
          /\ \A month \in DOMAIN cur.loaded \cup DOMAIN curatedFile.records :
                ~SameRecord(cur.loaded, curatedFile.records, month)
                   => month \in MonthsOf(cur.processed)
          /\ \A i \in 1..Len(cur.processed) :
                LET month == cur.processed[i].report_month
                IN  /\ month \in DOMAIN curatedFile.records
                    /\ curatedFile.records[month].raw_sha256
                         = file_sha256(RawBytes(rawOut[month]))
          /\ \A month \in MonthsOf(cur.failed) :
                SameRecord(cur.loaded, curatedFile.records, month)

\* A stage run that ended with one partition processed and one failed, the
\* failed one having had a record when the run started.
C3_Witness ==
    /\ CuratedStageEnded
    /\ cur.processed # <<>>
    /\ cur.failed # <<>>
    /\ \E month \in MonthsOf(cur.failed) : month \in DOMAIN cur.loaded

\* C4: an I/O error of file_sha256 for one partition never ends the run, in
\* either stage: the partition is reported failed and the loop goes on.
C4_FingerprintErrorIsolated ==
    /\ ~(last.outcome = "raised" /\ last.at \in {"ingest.file_sha256", "curated.file_sha256"})
    /\ post.error # "curated.file_sha256"

\* The stage of the running (or latest) invocation that is run again, with
\* the same inputs and the same selection, right after it was killed before
\* its save_state began.
RerunOfKilled(stage) ==
    /\ prev.killed = stage
    /\ prev.clean
    /\ IF stage = "ingest"
       THEN /\ args.cli = "ingest"
            /\ Range(IngestSelectedMonths) = prev.killedSelected
       ELSE /\ ing.processed = <<>>
            /\ ing.failed = <<>>
            /\ Range(cur.months) = prev.killedSelected

\* A stage killed before its save_state began leaves its state file as it was
\* when the run started.
KilledLeavesStateFile ==
    /\ (pc = "idle" /\ KilledStage = "ingest") => ingestFile = ing.fileAtStart
    /\ (pc = "idle" /\ KilledStage = "curated") => curatedFile = cur.fileAtStart

\* C5 as claimed: a stage killed before its save_state began leaves the state
\* file as it was, and the next run over the same inputs reports none of the
\* partitions the killed run had processed as unchanged.
C5_KilledRunReprocessed ==
    /\ KilledLeavesStateFile
    /\ RerunOfKilled("ingest") =>
          \A m \in prev.killedProcessed : m \notin MonthsOf(ing.unchanged)
    /\ RerunOfKilled("curated") =>
          \A m \in prev.killedProcessed : m \notin MonthsOf(cur.unchanged)

\* C5 as amended: the same, except for a month of the curated stage whose
\* state record held the fingerprint already, processed by the killed run only
\* because its curated parquet was missing.
C5_KilledRunReprocessedUnlessStale ==
    /\ KilledLeavesStateFile
    /\ RerunOfKilled("ingest") =>
          \A m \in prev.killedProcessed : m \notin MonthsOf(ing.unchanged)
    /\ RerunOfKilled("curated") =>
          \A m \in prev.killedProcessed \ prev.killedStale : m \notin MonthsOf(cur.unchanged)

\* The run after a killed curated run processes again a month that the killed
\* run had processed.
C5_Witness ==
    /\ RerunOfKilled("curated")
    /\ \E m \in prev.killedProcessed \ prev.killedStale : m \in MonthsOf(cur.processed)

\* C6: a state file is never on disk partially written.
C6_SaveAllOrNothing ==
    /\ ingestFile.kind # "partial"
    /\ curatedFile.kind # "partial"

\* C7: a month the curated stage reports as unchanged has a state record with
\* the fingerprint of the raw parquet and a curated parquet that exists: a
\* month whose curated parquet is gone is built again.
C7_StaleOutputRebuilt ==
    (pc # "idle" \/ ~dirty) =>
        \A i \in 1..Len(cur.unchanged) :
            LET month == cur.unchanged[i].report_month
            IN  /\ month \in DOMAIN cur.loaded
                /\ cur.loaded[month].raw_sha256 = file_sha256(RawBytes(rawOut[month]))
                /\ cur.loaded[month].curated_parquet_path
                     \in { PartitionDir(m) : m \in DOMAIN curOut }

\* The curated stage has built again a month whose state record held the
\* fingerprint of the raw parquet.
C7_Witness ==
    \E i \in 1..Len(cur.processed) :
        LET month == cur.processed[i].report_month
        IN  /\ month \in DOMAIN cur.loaded
            /\ cur.loaded[month].raw_sha256 = cur.processed[i].raw_sha256

\* C8: a file the raw-ingest stage reports as unchanged has a state record
\* with its fingerprint and a raw parquet that exists.
C8_IngestUnchangedHasOutput ==
    (args.cli = "ingest" /\ (pc # "idle" \/ ~dirty)) =>
        \A i \in 1..Len(ing.unchanged) :
            LET key == normalize_state_path_key(ing.unchanged[i].file)
            IN  /\ key \in DOMAIN ing.loaded
                /\ ing.loaded[key].sha256 = file_sha256(inputs[ing.unchanged[i].file].content)
                /\ ing.loaded[key].parquet_path \in { PartitionDir(m) : m \in DOMAIN rawOut }

\* C9: an invocation that exits with code 0 has no failed partition, in the
\* raw-ingest stage or in the curated stage chained after it.
C9_ExitZeroOnlyIfNothingFailed ==
    (pc = "idle" /\ last.outcome = "complete" /\ last.exit = 0) =>
        /\ ing.failed = <<>>
        /\ cur.failed = <<>>

\* The candidates of a month in the input directory.
CandidatesOf(dir, month) == { n \in DOMAIN dir : parse_report_month(n) = month }

\* The candidate discovery is to select: of the latest modification time, and
\* the first in scan order among those of that time.
IsWinner(dir, month, n) ==
    /\ n \in CandidatesOf(dir, month)
    /\ \A c \in CandidatesOf(dir, month) : dir[c].mtime <= dir[n].mtime
    /\ \A c \in CandidatesOf(dir, month) \ {n} : dir[c].mtime = dir[n].mtime => StrLess(n, c)

\* C10: discovery selects, for every month with a candidate, the candidate of
\* the latest modification time, the first in scan order among those of that
\* time; and one raw partition per month that has one.
C10_LatestWinsFirstOnTie ==
    /\ pc \in {"discovered", "raw_discovered"} =>
          /\ \A i \in 1..Len(ing.selected) :
                IsWinner(inputs, ing.selected[i].report_month, ing.selected[i].path)
          /\ \A n \in DOMAIN inputs :
                parse_report_month(n) # <<>> =>
                    \E i \in 1..Len(ing.selected) :
                        ing.selected[i].report_month = parse_report_month(n)
          /\ \A i, j \in 1..Len(ing.selected) :
                i < j => StrLess(ing.selected[i].report_month, ing.selected[j].report_month)
    /\ pc = "raw_discovered" =>
          /\ DOMAIN cur.mapping = DOMAIN rawOut
          /\ \A m \in DOMAIN cur.mapping : cur.mapping[m] = PartitionDir(m)

\* Three candidates of one month, two of them of the latest time, and the
\* winner neither the first nor the last of the scan.
C10_Witness ==
    /\ pc = "discovered"
    /\ \E i \in 1..Len(ing.selected) :
          LET month == ing.selected[i].report_month
              w == ing.selected[i].path
              cands == CandidatesOf(inputs, month)
          IN  /\ Cardinality(cands) >= 3
              /\ \E c \in cands \ {w} : inputs[c].mtime = inputs[w].mtime
              /\ \E c \in cands : StrLess(c, w)
              /\ \E c \in cands : StrLess(w, c)

\* The rejection entries that reference a file of the set files.
SkipsOf(skips, files) == { i \in 1..Len(skips) : skips[i].file \in files }

\* The months of the input directory with exactly two candidates, of different
\* modification times.
TwoCandidateMonths(dir) ==
    { month \in { parse_report_month(n) : n \in DOMAIN dir } \ {<<>>} :
        /\ Cardinality(CandidatesOf(dir, month)) = 2
        /\ \E a, b \in CandidatesOf(dir, month) : dir[a].mtime < dir[b].mtime }

OlderOf(dir, month) ==
    CHOOSE a \in CandidatesOf(dir, month) :
        \A b \in CandidatesOf(dir, month) : dir[a].mtime <= dir[b].mtime

NewerOf(dir, month) ==
    CHOOSE b \in CandidatesOf(dir, month) :
        \A a \in CandidatesOf(dir, month) : dir[a].mtime <= dir[b].mtime

\* The winner of month is its newer candidate, and one rejection entry
\* references a file of the month: the older file, with the given reason.
TwoCandidateOutcome(month, reason) ==
    /\ \E i \in 1..Len(ing.selected) :
          /\ ing.selected[i].report_month = month
          /\ ing.selected[i].path = NewerOf(inputs, month)
    /\ Cardinality(SkipsOf(ing.skips, CandidatesOf(inputs, month))) = 1
    /\ \A i \in SkipsOf(ing.skips, CandidatesOf(inputs, month)) :
          /\ ing.skips[i].file = OlderOf(inputs, month)
          /\ ing.skips[i].reason = reason

\* C11 as claimed: of two candidates of one month with modification times
\* T1 < T2 the T2 candidate wins, and the one rejection entry of the month
\* references the T1 file with the reason the specification spells
\* duplicate_partition_older_than:<T2 file name> (duplicate_month_older_than in
\* the code), whichever of the two comes first in the scan.
C11_OlderRejectedAsOlderThan ==
    pc = "discovered" =>
        \A month \in TwoCandidateMonths(inputs) :
            TwoCandidateOutcome(month,
                <<"duplicate_month_older_than", NewerOf(inputs, month)>>)

\* C11 as amended: the T2 candidate wins and the one rejection entry of the
\* month references the T1 file; its reason is older_than:<T2 file name> when
\* the T2 file comes first in the scan and replaced_by_newer_file:<T2 file
\* name> when the T1 file comes first.
C11_OlderRejectedByScanOrder ==
    pc = "discovered" =>
        \A month \in TwoCandidateMonths(inputs) :
            TwoCandidateOutcome(month,
                IF StrLess(NewerOf(inputs, month), OlderOf(inputs, month))
                THEN <<"duplicate_month_older_than", NewerOf(inputs, month)>>
                ELSE <<"duplicate_month_replaced_by_newer_file", NewerOf(inputs, month)>>)

\* Discovery has met a month whose older candidate comes first in the scan and
\* a month whose newer candidate comes first.
C11_Witness ==
    /\ pc = "discovered"
    /\ \E month \in TwoCandidateMonths(inputs) :
          StrLess(OlderOf(inputs, month), NewerOf(inputs, month))
    /\ \E month \in TwoCandidateMonths(inputs) :
          StrLess(NewerOf(inputs, month), OlderOf(inputs, month))

\* C12: every scanned file is the winner of one month or the file of one
\* rejection entry, never both and never neither; winners and rejections
\* add up to the files scanned, and a month has one winner.
C12_NoCandidateDropped ==
    pc = "discovered" =>
        /\ Len(ing.selected) + Len(ing.skips) = Cardinality(DOMAIN inputs)
        /\ \A n \in DOMAIN inputs :
              LET wins == { i \in 1..Len(ing.selected) : ing.selected[i].path = n }
                  rejections == SkipsOf(ing.skips, {n})
              IN  \/ Cardinality(wins) = 1 /\ rejections = {}
                  \/ wins = {} /\ Cardinality(rejections) = 1
        /\ \A i, j \in 1..Len(ing.selected) :
              ing.selected[i].report_month = ing.selected[j].report_month => i = j
        /\ \A i \in 1..Len(ing.selected) :
              parse_report_month(ing.selected[i].path) = ing.selected[i].report_month

\* Discovery of a directory with a file without a month, a candidate that was
\* replaced by a newer one and a candidate that lost to an earlier one.
C12_Witness ==
    /\ pc = "discovered"
    /\ \E i, j, k \in 1..Len(ing.skips) :
          /\ ing.skips[i].reason[1] = "invalid_report_month"
          /\ ing.skips[j].reason[1] = "duplicate_month_replaced_by_newer_file"
          /\ ing.skips[k].reason[1] = "duplicate_month_older_than"

\* C13: a file whose name holds no month has one rejection entry, with the
\* reason the specification spells invalid_partition_key (invalid_report_month,
\* followed by the parser's message, in the code), and is no winner; every
\* month of the other files has its winner.
C13_InvalidKeyRejected ==
    pc = "discovered" =>
        /\ \A n \in DOMAIN inputs :
              parse_report_month(n) = <<>> =>
                  /\ Cardinality(SkipsOf(ing.skips, {n})) = 1
                  /\ \A i \in SkipsOf(ing.skips, {n}) :
                        ing.skips[i].reason[1] = "invalid_report_month"
                  /\ \A i \in 1..Len(ing.selected) : ing.selected[i].path # n
        /\ \A n \in DOMAIN inputs :
              parse_report_month(n) # <<>> =>
                  \E i \in 1..Len(ing.selected) :
                      /\ ing.selected[i].report_month = parse_report_month(n)
                      /\ IsWinner(inputs, parse_report_month(n), ing.selected[i].path)

\* Discovery of a directory with a file without a month that sorts between
\* two files with one.
C13_Witness ==
    /\ pc = "discovered"
    /\ \E n \in DOMAIN inputs :
          /\ parse_report_month(n) = <<>>
          /\ \E a \in DOMAIN inputs : parse_report_month(a) # <<>> /\ StrLess(a, n)
          /\ \E b \in DOMAIN inputs : parse_report_month(b) # <<>> /\ StrLess(n, b)
          /\ Len(ing.selected) >= 2

\* C14: in a chained run the curated stage examines, and so curates, only
\* months that the raw-ingest stage of that run has processed: never a month
\* the raw-ingest stage reported as unchanged or failed.
C14_CuratedOnlyNewlyIngested ==
    Chained =>
        /\ Range(cur.months) \subseteq ProcessedMonths(ing.processed)
        /\ \A month \in MonthsOf(cur.processed) :
              month \notin MonthsOf(ing.unchanged) \cup MonthsOf(ing.failed)

\* An invocation has ended of itself, and not because its state file could not
\* be loaded.
RunEnded ==
    /\ pc = "idle"
    /\ last.outcome \in {"complete", "raised"}
    /\ last.at # "load_state"

\* The summary is on disk both as latest and under a run_id.
SummaryWritten(runs_by_id, latest, summary_at) ==
    /\ \E now \in 0..MaxClock : latest = summary_at[now]
    /\ \E id \in DOMAIN runs_by_id : runs_by_id[id] = latest

IngestStageCompleted ==
    /\ last.outcome = "complete"
    /\ ingestFile.kind = "ok" /\ ingestFile.records = ing.state
    /\ SummaryWritten(reports.ingestRuns, reports.ingestLatest,
                      [now \in 0..MaxClock |-> IngestRunSummary(ing, post, now)])

CuratedStageCompleted ==
    /\ curatedFile.kind = "ok" /\ curatedFile.records = cur.state
    /\ SummaryWritten(reports.curatedRuns, reports.curatedLatest,
                      [now \in 0..MaxClock |-> CuratedRunSummary(cur, now)])

\* C15: a stage run that has ended of itself has completed, whatever failed:
\* its state is saved, and its run summary is on disk under its run_id and,
\* with the same content, as latest.
C15_RunCompletes ==
    RunEnded =>
        /\ args.cli = "ingest" => IngestStageCompleted
        /\ (args.cli = "ingest" /\ args.build_curated) =>
              (post.error # "load_state" => post.executed /\ CuratedStageCompleted)
        /\ args.cli = "curated" => (last.outcome = "complete" /\ CuratedStageCompleted)

\* C16: a run summary written under a run_id is never overwritten or altered
\* by a later run of the stage.
C16_HistoryAppendOnly ==
    [][ /\ \A id \in DOMAIN reports.ingestRuns :
              /\ id \in DOMAIN reports.ingestRuns'
              /\ reports.ingestRuns'[id] = reports.ingestRuns[id]
        /\ \A id \in DOMAIN reports.curatedRuns :
              /\ id \in DOMAIN reports.curatedRuns'
              /\ reports.curatedRuns'[id] = reports.curatedRuns[id] ]_vars

\* C17: once all of the concurrent invocations have finished (and left a
\* state file that can be read), the state file holds the state record of
\* every file that one of them reports as processed.
C17_NoLostRecord ==
    (ingestFile.kind = "ok" /\ \A p \in Procs : pc[p] \in {"done", "raised"}) =>
        \A p \in Procs :
            pc[p] = "done" =>
                \A i \in 1..Len(ing[p].processed) :
                    normalize_state_path_key(ing[p].processed[i].file)
                        \in DOMAIN ingestFile.records

\* The state records that the raw-ingest stage has loaded for a month.
LoadedRecordsOf(month) ==
    { key \in DOMAIN ing.loaded : ing.loaded[key].report_month = month }

\* C18: a winning candidate whose fingerprint is the one recorded for its
\* month is not ingested again, under whatever file name it was delivered.
C18_SameBytesNotReingested ==
    (args.cli = "ingest" /\ (pc # "idle" \/ ~dirty)) =>
        \A i \in 1..Len(ing.processed) :
            LET month == ing.processed[i].report_month
                checksum == file_sha256(inputs[ing.processed[i].file].content)
            IN  ~ ( /\ LoadedRecordsOf(month) # {}
                    /\ \A key \in LoadedRecordsOf(month) :
                          ing.loaded[key].sha256 = checksum )

\* C19: a state file holds at most one state record per month.
C19_OneRecordPerMonth ==
    /\ \A k1, k2 \in DOMAIN ingestFile.records :
          ingestFile.records[k1].report_month = ingestFile.records[k2].report_month
              => k1 = k2
    /\ \A m1, m2 \in DOMAIN curatedFile.records :
          curatedFile.records[m1].curated_parquet_path
              = curatedFile.records[m2].curated_parquet_path => m1 = m2

\* C20: a schema file that cannot be loaded ends the raw-ingest run before
\* any partition is processed; it never becomes the error of a failed
\* partition of a run that goes on.
C20_SchemaErrorIsFatal ==
    \A i \in 1..Len(ing.failed) : ing.failed[i].error # ErrorMessage(SchemaPoint)

NothingClassified(loc) ==
    loc.processed = <<>> /\ loc.unchanged = <<>> /\ loc.failed = <<>> /\ loc.idx = 1

\* Where a stage that load_state ended stands: the raw-ingest run and the
\* stand-alone curated build end with the exception, the chained curated build
\* ends in the except clause of its caller, which goes on to exit with code 1.
LoadStateEnded ==
    /\ ing.fileAtStart.kind = "not_mapping" =>
          /\ pc = "idle"
          /\ last = Raised("load_state")
          /\ NothingClassified(ing)
    /\ cur.fileAtStart.kind = "not_mapping" =>
          /\ NothingClassified(cur)
          /\ IF Chained
             THEN /\ pc \in {"ingest_finish", "idle"}
                  /\ post.error = "load_state"
                  /\ ~post.executed
                  /\ pc = "idle" => last = Completed(1)
             ELSE /\ pc = "idle"
                  /\ last = Raised("load_state")

MissingLoadsEmpty ==
    /\ (args.cli = "ingest" /\ ing.fileAtStart.kind = "absent") =>
          /\ last.at # "load_state"
          /\ ing.loaded = <<>>
    /\ (pc \in {"cur_loop", "cur_saving", "cur_report"} /\ cur.fileAtStart.kind = "absent") =>
          /\ cur.loaded = <<>>
          /\ post.error # "load_state"

\* C21: load_state takes a missing state file for the empty state and raises
\* for one whose keyed-records field is not a mapping; the stage ends there,
\* with no partition classified, and from then on the run writes no partition
\* output, no report of a month and not the state file of that stage.
C21_LoadStateMissingOrNotMapping ==
    [][/\ MissingLoadsEmpty'
       /\ LoadStateEnded'
       /\ envSteps' = envSteps =>
             /\ ing'.fileAtStart.kind = "not_mapping" =>
                   /\ ingestFile' = ingestFile
                   /\ rawOut' = rawOut
                   /\ reports'.ingestMonth = reports.ingestMonth
             /\ cur'.fileAtStart.kind = "not_mapping" =>
                   /\ curatedFile' = curatedFile
                   /\ curOut' = curOut
                   /\ reports'.curatedMonth = reports.curatedMonth]_vars

C21_Witness ==
    /\ ing.fileAtStart.kind = "not_mapping"
    /\ last = Raised("load_state")
    /\ rawOut # <<>>
    /\ ingestFile = ing.fileAtStart

CountsAddUp(summary, discovered) ==
    summary.processed_count + summary.unchanged_count + summary.failed_count = discovered

Partitions(selected, P, U, F) ==
    /\ P \cup U \cup F = selected
    /\ P \cap U = {} /\ P \cap F = {} /\ U \cap F = {}

\* C22: a stage that has reached its run summary has put every selected
\* partition in exactly one of processed, unchanged and failed, and in every
\* run summary written the three counts add up to the discovered count.
C22_SummaryCountsAddUp ==
    /\ pc = "ingest_finish" =>
          Partitions(Range(IngestSelectedMonths), MonthsOf(ing.processed),
                     MonthsOf(ing.unchanged), MonthsOf(ing.failed))
    /\ pc = "cur_report" =>
          Partitions(Range(cur.months), MonthsOf(cur.processed),
                     MonthsOf(cur.unchanged), MonthsOf(cur.failed))
    /\ \A id \in DOMAIN reports.ingestRuns :
          CountsAddUp(reports.ingestRuns[id], reports.ingestRuns[id].discovered_file_count)
    /\ reports.ingestLatest # <<>> =>
          CountsAddUp(reports.ingestLatest, reports.ingestLatest.discovered_file_count)
    /\ \A id \in DOMAIN reports.curatedRuns :
          CountsAddUp(reports.curatedRuns[id],
                      reports.curatedRuns[id].discovered_raw_month_count)
    /\ reports.curatedLatest # <<>> =>
          CountsAddUp(reports.curatedLatest, reports.curatedLatest.discovered_raw_month_count)

\* A raw-ingest summary of a run that set aside a duplicate, with one partition
\* failed and another one not.
C22_Witness ==
    /\ reports.ingestLatest # <<>>
    /\ reports.ingestLatest.failed_count = 1
    /\ reports.ingestLatest.discovered_file_count = 2
    /\ reports.ingestLatest.discovery_skipped_count = 1

\* The raw-ingest run of the latest invocation completed with nothing failed,
\* and no file was changed since.
IngestRunClean ==
    /\ args.cli = "ingest"
    /\ pc = "idle"
    /\ last.outcome = "complete"
    /\ ing.failed = <<>>
    /\ ~dirty

\* The raw parquet of the month holds the rows of the workbook file_info.
BuiltFrom(raw, file_info) ==
    /\ file_info.report_month \in DOMAIN raw
    /\ raw[file_info.report_month].src = file_info.file_name
    /\ raw[file_info.report_month].content = inputs[file_info.path].content

\* C23: after raw-ingest runs in which no partition failed, the raw output of
\* every partition was produced from the content of its current winning
\* candidate, also when that candidate was ingested before and has become the
\* winner again after another file was ingested for the month.
C23_RawOutputFromWinner ==
    IngestRunClean =>
        \A i \in 1..Len(ing.selected) : BuiltFrom(rawOut, ing.selected[i])

\* The latest invocation was a chained run that completed both stages with
\* nothing failed, and no file was changed since.
ChainedRunClean ==
    /\ pc = "idle"
    /\ last.outcome = "complete"
    /\ args.cli = "ingest"
    /\ args.build_curated
    /\ post.executed
    /\ ing.failed = <<>>
    /\ cur.failed = <<>>
    /\ ~dirty

\* C24: after a chained run with nothing failed in either stage, every month
\* that has a raw output has a curated output built from the current content of
\* that raw output, so a month whose curated build failed in an earlier run is
\* built again by the next chained run whatever else that run ingests.
C24_CuratedFollowsRaw ==
    ChainedRunClean =>
        \A month \in DOMAIN rawOut :
            /\ month \in DOMAIN curOut
            /\ curOut[month].raw = RawBytes(rawOut[month])

\* What is on disk for the month in a directory of outputs or reports.
Entry(f, month) == IF month \in DOMAIN f THEN <<f[month]>> ELSE <<>>

\* C25: a step that reports a partition as failed leaves the output artifact
\* that an earlier run produced for that partition, and its report, as they
\* were before the step, in both stages.
C25_FailedLeavesOutput ==
    [][/\ \A month \in (MonthsOf(ing'.failed) \ MonthsOf(ing.failed)) \cap DOMAIN rawOut :
             /\ month \in DOMAIN rawOut'
             /\ rawOut'[month] = rawOut[month]
             /\ reports'.ingestMonth = reports.ingestMonth
       /\ \A month \in (MonthsOf(cur'.failed) \ MonthsOf(cur.failed)) \cap DOMAIN curOut :
             /\ month \in DOMAIN curOut'
             /\ curOut'[month] = curOut[month]
             /\ reports'.curatedMonth = reports.curatedMonth]_vars

\* The pc values of an invocation whose curated stage has saved its state.
AfterCuratedSave == {"cur_report", "ingest_finish"}

\* C26: a partition reported as unchanged has its output artifact and its
\* report left as they were by every step of the run, and after the save its
\* state record is the one that was loaded; a stage that processed nothing
\* writes the state file back as it was, but for updated_at.
C26_UnchangedLeftAlone ==
    [][/\ envSteps' = envSteps =>
             /\ \A month \in MonthsOf(ing'.unchanged) :
                   /\ Entry(rawOut', month) = Entry(rawOut, month)
                   /\ Entry(reports'.ingestMonth, month) = Entry(reports.ingestMonth, month)
             /\ \A month \in MonthsOf(cur'.unchanged) :
                   /\ Entry(curOut', month) = Entry(curOut, month)
                   /\ Entry(reports'.curatedMonth, month)
                        = Entry(reports.curatedMonth, month)
       /\ (pc' \in AfterIngestSave /\ args'.cli = "ingest") =>
             /\ \A key \in IngestKeys(ing'.unchanged) :
                   /\ key \in DOMAIN ingestFile'.records
                   /\ ingestFile'.records[key] = ing'.loaded[key]
             /\ (ing'.unchanged # <<>> /\ ing'.processed = <<>>) =>
                   ingestFile' = [ing'.fileAtStart EXCEPT !.updated_at = ingestFile'.updated_at]
       /\ (pc' \in AfterCuratedSave /\ (post'.executed \/ pc' = "cur_report")) =>
             /\ \A month \in MonthsOf(cur'.unchanged) :
                   /\ month \in DOMAIN curatedFile'.records
                   /\ curatedFile'.records[month] = cur'.loaded[month]
             /\ (cur'.unchanged # <<>> /\ cur'.processed = <<>>) =>
                   curatedFile'
                     = [cur'.fileAtStart EXCEPT !.updated_at = curatedFile'.updated_at]]_vars

\* A raw-ingest run that found every file unchanged has written the state file
\* back with a later updated_at.
C26_Witness ==
    /\ pc = "ingest_finish"
    /\ ing.unchanged # <<>>
    /\ ing.processed = <<>>
    /\ ingestFile.updated_at > ing.fileAtStart.updated_at
    /\ ingestFile.records = ing.fileAtStart.records

CuratedStagePcs == {"cur_loop", "cur_saving", "cur_report"}

\* The months a curated build is restricted to; every month when no filter is given.
OutsideFilter(loc) ==
    IF loc.selected_months = <<>> THEN {} ELSE Months \ loc.selected_months[1]

\* C27: a curated build restricted to a set of months lists no month outside
\* the set, no step of it changes the curated output or the report of such a
\* month, and after its save the state records of those months are as loaded;
\* a curated build without a filter selects every discovered raw partition.
C27_FilterFrame ==
    [][/\ \A month \in OutsideFilter(cur') :
             /\ month \notin Range(cur'.months)
             /\ month \notin MonthsOf(cur'.processed) \cup MonthsOf(cur'.unchanged)
                               \cup MonthsOf(cur'.failed)
             /\ envSteps' = envSteps =>
                   /\ Entry(curOut', month) = Entry(curOut, month)
                   /\ Entry(reports'.curatedMonth, month)
                        = Entry(reports.curatedMonth, month)
             /\ pc' \in {"cur_report"} =>
                   SameRecord(cur'.loaded, curatedFile'.records, month)
       /\ (pc' \in CuratedStagePcs /\ cur'.selected_months = <<>>) =>
             Range(cur'.months) = DOMAIN discover_raw_partitions(rawOut').mapping]_vars

\* A curated build restricted to one month has built it and has left aside
\* another month that has a raw output and no curated output.
C27_Witness ==
    /\ pc = "cur_report"
    /\ cur.selected_months # <<>>
    /\ cur.processed # <<>>
    /\ \E month \in DOMAIN rawOut \ DOMAIN curOut : month \in OutsideFilter(cur)

\* YYYY-MM with MM one of 01..12.
IsCalendarMonth(key) ==
    /\ Len(key) = 7
    /\ \/ key[6] = "0" /\ key[7] \in Digits \ {"0"}
       \/ key[6] = "1" /\ key[7] \in {"0", "1", "2"}

\* C28: every month raw-ingest discovery admits is a calendar month, YYYY-MM
\* with MM from 01 to 12, and a file whose name carries no such month is set
\* aside as invalid instead of being selected.
C28_AdmittedKeysAreCalendarMonths ==
    pc = "discovered" =>
        /\ \A i \in 1..Len(ing.selected) : IsCalendarMonth(ing.selected[i].report_month)
        /\ \A n \in DOMAIN inputs :
              (\A i \in 1..Len(n) : ~(MonthAt(n, i) /\ IsCalendarMonth(SubSeq(n, i, i + 6))))
                 => \E j \in 1..Len(ing.skips) :
                       /\ ing.skips[j].file = n
                       /\ ing.skips[j].reason[1] = "invalid_report_month"

\* The reports of months that the step from the first directory to the second
\* wrote over, and that were not written by the invocation run.
OverwrittenFromEarlierRun(before, after, run) ==
    { month \in DOMAIN before :
        /\ Entry(after, month) # Entry(before, month)
        /\ before[month].written_by # run }

\* C29: the report of a month and stage is not changed once written, except
\* by the run that wrote it: no step writes over a report that an earlier run
\* wrote for the same month and stage.
C29_StageReportImmutable ==
    [][/\ OverwrittenFromEarlierRun(reports.ingestMonth, reports'.ingestMonth, runs') = {}
       /\ OverwrittenFromEarlierRun(reports.curatedMonth, reports'.curatedMonth, runs') = {}]_vars

\* The state file the stage loaded carries a schema_id other than the expected one.
ForeignLoaded(loc, expected) ==
    loc.fileAtStart.kind = "ok" /\ loc.fileAtStart.schema_id # expected

\* C30: a state file whose schema_id is not the identifier of the stage is
\* rejected by load_state: the raw-ingest run or the stand-alone curated build
\* ends with the error, the chained curated build ends in the error of its
\* caller, and no partition is classified.
C30_ForeignSchemaRejected ==
    /\ ForeignLoaded(ing, SCHEMA_ID) =>
          /\ pc = "idle"
          /\ last = Raised("load_state")
          /\ NothingClassified(ing)
    /\ ForeignLoaded(cur, CURATED_SCHEMA_ID) =>
          /\ NothingClassified(cur)
          /\ IF Chained
             THEN pc \in {"ingest_finish", "idle"} /\ post.error = "load_state"
             ELSE pc = "idle" /\ last = Raised("load_state")

====
